---- MODULE Spec2Model ----
(***************************************************************************)
(* Whisper-WebUI: the transcription entry points of WhisperInference       *)
(* (modules/whisper_Inference.py) and the model cache they share, as a     *)
(* state machine.  Every entry point is a sequence of steps of one worker  *)
(* thread; the cache fields are shared by all workers.  External calls     *)
(* (whisper, torch, youtube, subtitle writer, os) either return or raise.  *)
(* Spec explores the cache under serial and overlapping jobs, SpecOutput   *)
(* the outputs directory over jobs run one at a time, and SpecUI the model *)
(* dropdown and translate checkbox of a tab (app.py) with the jobs started *)
(* from them.                                                              *)
(***************************************************************************)
EXTENDS Integers, FiniteSets, Sequences, TLC

\* ------------------------------------------------------------ bounds
\* number of entry-point invocations explored in one behaviour
MaxJobs == 3
\* longest uploaded file list
MaxFiles == 2
\* seconds of wall-clock time that pass in one behaviour
MaxTime == 1
\* number of invocations explored in one behaviour of the outputs directory
MaxOutputJobs == 2

\* ------------------------------------------------------------ values
\* Python's None
None == "None"

\* worker threads of the gradio queue that may run an entry point; a serial
\* queue uses the first one only
Workers == {1, 2}

\* a subset of whisper.available_models()
available_models == {"base", "large-v3"}

\* whisper_Inference.py:25
available_compute_types == {"float16", "float32"}

\* whisper_Inference.py:347
translatable_model == {"large", "large-v1", "large-v2", "large-v3"}

\* app.py:52-53: the first entry of the language dropdown and its default
\* value, the four characters U+81EA U+52A8 U+68C0 U+6D4B ("automatic
\* detection" in Chinese), written here in pinyin
dd_lang_default == "ZiDongJianCe"

\* app.py:52: the choices of the language dropdown (one language stands for
\* whisper.tokenizer.LANGUAGES)
dd_lang_choices == {dd_lang_default, "english"}

\* the lang values an entry point can be called with: the dropdown choices,
\* and the literal whisper_Inference.py:344 compares with
LangArgs == dd_lang_choices \cup {"Automatic Detection"}

\* app.py:54: the choices of the format dropdown
dd_file_format_choices == {"SRT", "WebVTT", "txt"}

\* the file_format values an entry point can be called with: the dropdown
\* choices, and one that generate_and_write_file does not know
FileFormats == dd_file_format_choices \cup {"json"}

\* app.py:60-62: the default decoding options of the three number fields
\* (the thresholds -1.0 and 0.6 in tenths)
nb_defaults == [beam_size |-> 1, log_prob_threshold |-> -10, no_speech_threshold |-> 6]

\* the decoding options an entry point can be called with: the defaults, and
\* values that differ from them in every field
DecodingArgs == {nb_defaults,
                 [beam_size |-> 5, log_prob_threshold |-> -5, no_speech_threshold |-> 4]}

\* uploaded files: the name of the temporary copy and the audio it holds;
\* the first two differ in extension only
UploadA == [name |-> "a.mp3", audio |-> "x"]
Uploads == {UploadA, [name |-> "a.wav", audio |-> "y"]}

\* what a YouTube link or a microphone recording holds
NoMedia == [title |-> None, audio |-> None]
MediaA == [title |-> "a", audio |-> "x"]

\* the sequences over S of length at most k
SeqsUpTo(S, k) == UNION {[1..m -> S] : m \in 0..k}

\* fileobjs of transcribe_file: None (nothing uploaded: given is FALSE) or a
\* list of n files
NoFileList == [given |-> FALSE, n |-> 0, files |-> <<>>]
FileListOf(files) == [given |-> TRUE, n |-> Len(files), files |-> files]
FileLists == {NoFileList} \cup {FileListOf(fs) : fs \in SeqsUpTo({UploadA}, MaxFiles)}
\* the batches of at most two different uploads
OutputFileLists ==
    {FileListOf(fs) : fs \in {s \in SeqsUpTo(Uploads, 2) :
                                \A i, j \in 1..Len(s) : i # j => s[i] # s[j]}}

\* the arguments of entry-point invocations: transcribe_file takes the file
\* list, transcribe_youtube the link and transcribe_mic the recording;
\* transcribe_mic has no add_timestamp parameter
ArgsOver(lists, medias, models, compute_types, langs, translates, formats, stamps, decodings) ==
    [kind : {"file"}, fileobjs : lists, media : {NoMedia},
     model_size : models, compute_type : compute_types,
     lang : langs, istranslate : translates, file_format : formats,
     add_timestamp : stamps, decoding : decodings]
    \cup
    [kind : {"youtube"}, fileobjs : {NoFileList}, media : medias,
     model_size : models, compute_type : compute_types,
     lang : langs, istranslate : translates, file_format : formats,
     add_timestamp : stamps, decoding : decodings]
    \cup
    [kind : {"mic"}, fileobjs : {NoFileList}, media : medias,
     model_size : models, compute_type : compute_types,
     lang : langs, istranslate : translates, file_format : formats,
     add_timestamp : {TRUE}, decoding : decodings]

\* the invocations explored for the model cache and the inference call: one
\* upload, one link, the default output options
JobArgs ==
    ArgsOver(FileLists, {MediaA}, available_models, available_compute_types,
             LangArgs, BOOLEAN, {"SRT"}, {TRUE}, {nb_defaults})

\* the invocations explored for the outputs directory: transcribe_file with
\* every file list, format of the dropdown and naming option, the other
\* entry points stamped, as SRT or in the unknown format; one model and the
\* default decoding options
OutputJobArgs ==
    {a \in ArgsOver(OutputFileLists, {MediaA}, {"large-v3"}, {"float16"},
                    {"english"}, {FALSE}, FileFormats, BOOLEAN, {nb_defaults}) :
        IF a.kind = "file"
        THEN a.file_format \in dd_file_format_choices
        ELSE a.file_format \in {"SRT", "json"} /\ a.add_timestamp}

\* the invocations a click can start from the widgets of its tab: the model
\* of the dropdown and the value of the translate checkbox, either precision
\* and any decoding options
ClickArgs(model_size, istranslate) ==
    ArgsOver({FileListOf(<<UploadA>>)}, {MediaA}, {model_size},
             available_compute_types, {"english"}, {istranslate}, {"SRT"}, {TRUE},
             DecodingArgs)

\* the entry points whose interleavings are explored when the queue lets
\* workers overlap; update_model_if_needed and transcribe, the only code that
\* touches the shared cache, are the same for all three
ConcurrentKinds == {"mic"}

\* the invocations whose interleavings are explored: translate requests for
\* either model in either precision
ConcurrentArgs ==
    {a \in JobArgs : /\ a.kind \in ConcurrentKinds
                     /\ a.lang = "english"
                     /\ a.istranslate}

NoJob == [kind |-> None, fileobjs |-> NoFileList, media |-> NoMedia,
          model_size |-> None, compute_type |-> None,
          lang |-> None, istranslate |-> FALSE, file_format |-> None,
          add_timestamp |-> FALSE, decoding |-> nb_defaults]

\* no inference call in flight
NoCall == [lang |-> None, istranslate |-> FALSE, language |-> None,
           task |-> None, fp16 |-> FALSE, handle |-> None,
           beam_size |-> 0, logprob_threshold |-> 0, no_speech_threshold |-> 0]

VARIABLES
    queue_mode,             \* "serial": one job at a time; "concurrent": workers interleave
    current_model_size,     \* self.current_model_size
    model,                  \* self.model: None or the identifier the handle was loaded from
    current_compute_type,   \* self.current_compute_type
    load_failed,            \* history: some whisper.load_model call has raised
    started,                \* number of entry-point invocations so far
    pc,                     \* position of each worker in its entry point
    job,                    \* arguments of each worker's invocation
    idx,                    \* transcribe_file: index of the file being processed
    yt,                     \* transcribe_youtube: the local 'yt' is bound
    tmp,                    \* the job's temporary input files that exist on disk
    call,                   \* the self.model.transcribe call in flight
    flags,                  \* what happened in the invocation so far
    result,                 \* how the entry point ended
    now,                    \* the wall clock, in seconds
    outputs,                \* the outputs directory: path -> content
    files_info,             \* transcribe_file: the local dict, in insertion order
    gr_file_path,           \* the paths in the value an entry point returned
    last_write,             \* history: the latest generate_and_write_file call
    dd_model,               \* app.py: value of the model dropdown
    cb_translate,           \* app.py: the translate checkbox
    ticked                  \* history: the box was ticked after the last model change

vars == <<queue_mode, current_model_size, model, current_compute_type, load_failed,
          started, pc, job, idx, yt, tmp, call, flags, result,
          now, outputs, files_info, gr_file_path, last_write,
          dd_model, cb_translate, ticked>>

\* the widgets of a tab
widgets == <<dd_model, cb_translate, ticked>>

\* what no step of an entry point changes
env == <<queue_mode, now, widgets>>

\* the outputs directory and the record of its latest write
disk == <<outputs, last_write>>

cache == <<current_model_size, model, current_compute_type>>

\* flags of an invocation (the first two are kept while the try body runs):
\*   ct_changed      update_model_if_needed rewrote current_compute_type
\*   loaded          update_model_if_needed called whisper.load_model
\*   step_failed     a statement of the try body raised
\*   infer_raised    self.model.transcribe raised
\*   logged          the except clause printed its message
\*   released        release_cuda_memory ran to its end
\*   remove_called   remove_input_files was called
\*   cleanup_fault   release_cuda_memory, remove_input_files or a YouTube
\*                   call of the finally clause raised
\*   cleanup_raised  a statement of the finally clause raised
NoFlags == [ct_changed |-> FALSE, loaded |-> FALSE, step_failed |-> FALSE,
            infer_raised |-> FALSE, logged |-> FALSE, released |-> FALSE,
            remove_called |-> FALSE, cleanup_fault |-> FALSE, cleanup_raised |-> FALSE]

\* ------------------------------------------------------------ pure parts

\* app.py:34
translatable_model_ui == {"large", "large-v1", "large-v2", "large-v3"}

\* a variant of on_change_models that leaves the value of the box as it is
on_change_models_keep(model_size) ==
    IF model_size \notin translatable_model_ui
    THEN [value |-> cb_translate.value, visible |-> FALSE, interactive |-> FALSE]
    ELSE [value |-> cb_translate.value, visible |-> TRUE, interactive |-> TRUE]

\* app.py:32-38: the checkbox the change handler returns
on_change_models(model_size) ==
    IF model_size \notin translatable_model_ui
    THEN [value |-> FALSE, visible |-> FALSE, interactive |-> FALSE]
    ELSE [value |-> FALSE, visible |-> TRUE, interactive |-> TRUE]

\* whisper_Inference.py:344-345
Language(lang) == IF lang = "Automatic Detection" THEN None ELSE lang

\* a variant of Task that honours every translate request
TaskNoDowngrade(istranslate, model_size) ==
    IF istranslate THEN "translate" ELSE "transcribe"

\* whisper_Inference.py:354
Task(istranslate, model_size) ==
    IF istranslate /\ model_size \in translatable_model THEN "translate" ELSE "transcribe"

\* whisper_Inference.py:27
default_beam_size == 1

\* a variant of BeamSize that decodes with the default beam size
BeamSizeDefault(decoding) == default_beam_size

\* whisper_Inference.py:351
BeamSize(decoding) == decoding.beam_size

\* whisper_Inference.py:355
Fp16(compute_type) == compute_type = "float16"

\* a variant of NewComputeType that never records the requested precision
KeepComputeType(compute_type) == current_compute_type

\* whisper_Inference.py:369-370
NewComputeType(compute_type) ==
    IF compute_type # current_compute_type THEN compute_type ELSE current_compute_type

\* a variant of NeedsLoad that forgets the empty cache
NeedsLoadSizeOnly(model_size) == model_size # current_model_size

\* a variant of NeedsLoad that loads only into an empty cache
NeedsLoadWhenEmpty(model_size) == model = None

\* whisper_Inference.py:371
NeedsLoad(model_size) == model_size # current_model_size \/ model = None

\* whisper_Inference.py:99-100 and 195: the base name without directory and
\* extension, made safe for the file system by safe_filename
SafeBaseName(name) ==
    CASE name = "a.mp3" -> "a"
      [] name = "a.wav" -> "a"
      [] OTHER -> name

\* the file_name an entry point hands to generate_and_write_file for its
\* i-th input (99-100, 195, 282)
FileName(args, i) ==
    CASE args.kind = "file" -> SafeBaseName(args.fileobjs.files[i].name)
      [] args.kind = "youtube" -> SafeBaseName(args.media.title)
      [] OTHER -> "Mic"

\* whisper_Inference.py:284: transcribe_mic always asks for a timestamp
AddTimestamp(args) == IF args.kind = "mic" THEN TRUE ELSE args.add_timestamp

\* the audio of the i-th input of a job
Audio(args, i) ==
    IF args.kind = "file" THEN args.fileobjs.files[i].audio ELSE args.media.audio

\* the segments self.model.transcribe returns for an audio: start and end in
\* seconds and the text
Segments(audio) ==
    CASE audio = "x" -> <<[start |-> 0, end |-> 1, text |-> "hello"],
                          [start |-> 1, end |-> 3, text |-> "world"]>>
      [] audio = "y" -> <<[start |-> 0, end |-> 2, text |-> "bye"]>>
      [] OTHER -> <<>>

\* HH:MM:SS and milliseconds of a whole number of seconds below ten
FormatTime(t, sep) == "00:00:0" \o ToString(t) \o sep \o "000"

Cue(seg, sep) == FormatTime(seg.start, sep) \o " --> " \o FormatTime(seg.end, sep)

\* an empty file
NoContent == [header |-> "", cues |-> <<>>]

\* subtitle_manager.get_srt: index from 1, time span with a comma, text
get_srt(segments) ==
    [header |-> "",
     cues |-> [i \in 1..Len(segments) |->
                 <<ToString(i), Cue(segments[i], ","), segments[i].text>>]]

\* subtitle_manager.get_vtt: the WEBVTT header, time span with a dot, text
get_vtt(segments) ==
    [header |-> "WEBVTT",
     cues |-> [i \in 1..Len(segments) |->
                 <<"", Cue(segments[i], "."), segments[i].text>>]]

\* subtitle_manager.get_txt: the texts, one per line
get_txt(segments) ==
    [header |-> "",
     cues |-> [i \in 1..Len(segments) |-> <<"", "", segments[i].text>>]]

\* subtitle_manager.write_file: the file at path is created or replaced
write_file(dir, content, path) ==
    [p \in DOMAIN dir \cup {path} |-> IF p = path THEN content ELSE dir[p]]

\* whisper_Inference.py:389: month, day, hour, minute and second of the
\* clock; seconds stand for the whole stamp
Strftime(t) == ToString(t)

\* a variant of OutputPath that stamps every name
OutputPathStamped(file_name, add_timestamp, timestamp) ==
    <<"outputs", file_name \o "-" \o timestamp>>

\* whisper_Inference.py:390-393
OutputPath(file_name, add_timestamp, timestamp) ==
    IF add_timestamp THEN <<"outputs", file_name \o "-" \o timestamp>>
                     ELSE <<"outputs", file_name>>

\* a variant of Extension that gives WebVTT the SRT suffix
ExtensionSrtOnly(file_format) ==
    CASE file_format = "SRT" -> ".srt"
      [] file_format = "WebVTT" -> ".srt"
      [] file_format = "txt" -> ".txt"

\* whisper_Inference.py:397, 402, 407
Extension(file_format) ==
    CASE file_format = "SRT" -> ".srt"
      [] file_format = "WebVTT" -> ".vtt"
      [] file_format = "txt" -> ".txt"

\* whisper_Inference.py:396, 401, 406
Content(file_format, segments) ==
    CASE file_format = "SRT" -> get_srt(segments)
      [] file_format = "WebVTT" -> get_vtt(segments)
      [] file_format = "txt" -> get_txt(segments)

\* whisper_Inference.py:395-408: the path with its extension
FullPath(file_name, add_timestamp, timestamp, file_format) ==
    LET output_path == OutputPath(file_name, add_timestamp, timestamp)
    IN  <<output_path[1], output_path[2] \o Extension(file_format)>>

\* no generate_and_write_file call so far
NoWrite == [file_name |-> None, segments |-> <<>>, add_timestamp |-> FALSE,
            file_format |-> None, timestamp |-> 0, path |-> <<>>,
            content |-> NoContent, returned |-> <<>>,
            again |-> FALSE]

\* files_info[file_name] = info (line 107): a dict keeps one entry per key,
\* in the order the keys were first inserted
DictPut(d, info) ==
    IF \E i \in 1..Len(d) : d[i].file_name = info.file_name
    THEN [i \in 1..Len(d) |-> IF d[i].file_name = info.file_name THEN info ELSE d[i]]
    ELSE Append(d, info)

\* whisper_Inference.py:118
Paths(d) == [i \in 1..Len(d) |-> d[i].path]

\* the temporary input files a job starts with: the uploaded files, or the
\* microphone recording; the YouTube audio is downloaded by the job
InputFiles(args) ==
    CASE args.kind = "file" -> 1..args.fileobjs.n
      [] args.kind = "mic" -> {1}
      [] OTHER -> {}

\* where an entry point continues after update_model_if_needed
AfterUpdate(kind) ==
    CASE kind = "file" -> "loop"
      [] kind = "youtube" -> "ytdata"
      [] OTHER -> "infer"

\* ------------------------------------------------------------ initial state

\* WhisperInference.__init__: nothing cached; the recorded precision follows
\* the device (cuda: float16, cpu: float32).  The gradio queue either runs
\* one event at a time or lets the workers interleave.
Init ==
    /\ queue_mode \in {"serial", "concurrent"}
    /\ current_model_size = None
    /\ model = None
    /\ current_compute_type \in available_compute_types
    /\ load_failed = FALSE
    /\ started = 0
    /\ pc = [w \in Workers |-> "idle"]
    /\ job = [w \in Workers |-> NoJob]
    /\ idx = [w \in Workers |-> 0]
    /\ yt = [w \in Workers |-> FALSE]
    /\ tmp = [w \in Workers |-> {}]
    /\ call = [w \in Workers |-> NoCall]
    /\ flags = [w \in Workers |-> NoFlags]
    /\ result = [w \in Workers |-> "pending"]
    /\ now = 0
    /\ outputs = [p \in {} |-> NoContent]
    /\ files_info = [w \in Workers |-> <<>>]
    /\ gr_file_path = [w \in Workers |-> <<>>]
    /\ last_write = NoWrite
    /\ dd_model = "large-v3"
    /\ cb_translate = [value |-> FALSE, visible |-> TRUE, interactive |-> TRUE]
    /\ ticked = FALSE

\* ------------------------------------------------------------ steps

\* a raise inside the try body: the except clause logs, the function's value
\* is None, and control reaches the finally clause
Raise(w, f) ==
    /\ flags' = [flags EXCEPT ![w] =
            [f EXCEPT !.step_failed = TRUE, !.logged = TRUE,
                      !.ct_changed = FALSE, !.loaded = FALSE]]
    /\ result' = [result EXCEPT ![w] = "none"]
    /\ gr_file_path' = gr_file_path
    /\ pc' = [pc EXCEPT ![w] = "finally"]

\* the return statement of the try body, with the paths it returns
Return(w, paths) ==
    /\ flags' = [flags EXCEPT ![w] = [@ EXCEPT !.ct_changed = FALSE, !.loaded = FALSE]]
    /\ result' = [result EXCEPT ![w] = "value"]
    /\ gr_file_path' = [gr_file_path EXCEPT ![w] = paths]
    /\ pc' = [pc EXCEPT ![w] = "finally"]

\* the queue hands an event, with arguments out of a set, to an idle worker
Begin(w, argset) ==
    /\ pc[w] = "idle"
    /\ started < MaxJobs
    /\ queue_mode = "serial" => w = 1
    /\ \E args \in argset :
        /\ job' = [job EXCEPT ![w] = args]
        /\ tmp' = [tmp EXCEPT ![w] = InputFiles(args)]
    /\ started' = started + 1
    /\ pc' = [pc EXCEPT ![w] = "update"]
    /\ idx' = [idx EXCEPT ![w] = 1]
    /\ UNCHANGED <<env, disk, files_info, cache, load_failed, yt, call, flags, result,
                   gr_file_path>>

\* btn_run.click
Start(w) == Begin(w, IF queue_mode = "concurrent" THEN ConcurrentArgs ELSE JobArgs)

\* btn_run.click, with the arguments explored for the outputs directory
StartOutput(w) ==
    /\ started < MaxOutputJobs
    /\ Begin(w, OutputJobArgs)

\* a second of wall-clock time passes; the clock is read at line 389 only,
\* so the seconds count that pass before a generate_and_write_file call
Tick ==
    /\ now < MaxTime
    /\ \E w \in Workers : pc[w] = "write"
    /\ now' = now + 1
    /\ UNCHANGED <<queue_mode, widgets, cache, load_failed, started, pc, job, idx, yt,
                   tmp, call, flags, result, disk, files_info, gr_file_path>>

\* update_model_if_needed up to the call of whisper.load_model
UpdateModelIfNeeded(w) ==
    /\ pc[w] = "update"
    /\ current_compute_type' = NewComputeType(job[w].compute_type)
    /\ IF NeedsLoad(job[w].model_size)
       THEN /\ current_model_size' = job[w].model_size
            /\ pc' = [pc EXCEPT ![w] = "loading"]
       ELSE /\ current_model_size' = current_model_size
            /\ pc' = [pc EXCEPT ![w] = AfterUpdate(job[w].kind)]
    /\ flags' = [flags EXCEPT ![w] =
            [@ EXCEPT !.ct_changed = (job[w].compute_type # current_compute_type),
                      !.loaded = NeedsLoad(job[w].model_size)]]
    /\ UNCHANGED <<env, disk, files_info, model, load_failed, started, job, idx, yt,
                   tmp, call, result, gr_file_path>>

\* whisper.load_model returns: the handle replaces the cached one
LoadModelReturns(w) ==
    /\ pc[w] = "loading"
    /\ model' = job[w].model_size
    /\ pc' = [pc EXCEPT ![w] = AfterUpdate(job[w].kind)]
    /\ UNCHANGED <<env, disk, files_info, current_model_size, current_compute_type,
                   load_failed, started, job, idx, yt, tmp, call, flags, result,
                   gr_file_path>>

\* whisper.load_model raises: self.model keeps its old value
LoadModelRaises(w) ==
    /\ pc[w] = "loading"
    /\ load_failed' = TRUE
    /\ Raise(w, flags[w])
    /\ UNCHANGED <<env, disk, files_info, cache, started, job, idx, yt, tmp, call>>

\* transcribe_file, line 84-86: the loop header and whisper.load_audio.
\* Iterating None raises TypeError; an exhausted list leads to the return.
FileLoop(w) ==
    /\ pc[w] = "loop"
    /\ IF ~job[w].fileobjs.given
       THEN Raise(w, flags[w])
       ELSE IF idx[w] > job[w].fileobjs.n
            THEN Return(w, Paths(files_info[w]))
            ELSE \E ok \in BOOLEAN :
                    IF ok THEN /\ pc' = [pc EXCEPT ![w] = "infer"]
                               /\ UNCHANGED <<flags, result, gr_file_path>>
                          ELSE Raise(w, flags[w])
    /\ UNCHANGED <<env, disk, files_info, cache, load_failed, started, job, idx, yt, tmp, call>>

\* transcribe_youtube, line 182: get_ytdata binds the local yt, or raises
YtData(w) ==
    /\ pc[w] = "ytdata"
    /\ \E ok \in BOOLEAN :
        IF ok THEN /\ yt' = [yt EXCEPT ![w] = TRUE]
                   /\ pc' = [pc EXCEPT ![w] = "ytaudio"]
                   /\ UNCHANGED <<flags, result, gr_file_path>>
              ELSE /\ yt' = yt
                   /\ Raise(w, flags[w])
    /\ UNCHANGED <<env, disk, files_info, cache, load_failed, started, job, idx, tmp, call>>

\* transcribe_youtube, line 183: get_ytaudio downloads the audio file (or
\* raises), then whisper.load_audio decodes it (or raises)
YtAudio(w) ==
    /\ pc[w] = "ytaudio"
    /\ \E o \in {"ok", "fetch_raises", "decode_raises"} :
        /\ tmp' = [tmp EXCEPT ![w] = IF o = "fetch_raises" THEN tmp[w] ELSE {1}]
        /\ IF o = "ok" THEN /\ pc' = [pc EXCEPT ![w] = "infer"]
                            /\ UNCHANGED <<flags, result, gr_file_path>>
                       ELSE Raise(w, flags[w])
    /\ UNCHANGED <<env, disk, files_info, cache, load_failed, started, job, idx, yt, call>>

\* transcribe, line 344-356: the call self.model.transcribe(...) is issued
\* with the arguments computed from the job and from the cache as it is now.
\* With no handle cached the attribute access on None raises.
Transcribe(w) ==
    /\ pc[w] = "infer"
    /\ IF model = None
       THEN /\ Raise(w, flags[w])
            /\ call' = call
       ELSE /\ call' = [call EXCEPT ![w] =
                    [lang |-> job[w].lang,
                     istranslate |-> job[w].istranslate,
                     language |-> Language(job[w].lang),
                     task |-> Task(job[w].istranslate, current_model_size),
                     fp16 |-> Fp16(job[w].compute_type),
                     handle |-> model,
                     beam_size |-> BeamSize(job[w].decoding),
                     logprob_threshold |-> job[w].decoding.log_prob_threshold,
                     no_speech_threshold |-> job[w].decoding.no_speech_threshold]]
            /\ pc' = [pc EXCEPT ![w] = "inferring"]
            /\ UNCHANGED <<flags, result, gr_file_path>>
    /\ UNCHANGED <<env, disk, files_info, cache, load_failed, started, job, idx, yt, tmp>>

\* self.model.transcribe returns its segments
TranscribeReturns(w) ==
    /\ pc[w] = "inferring"
    /\ call' = [call EXCEPT ![w] = NoCall]
    /\ pc' = [pc EXCEPT ![w] = "write"]
    /\ UNCHANGED <<env, disk, files_info, cache, load_failed, started, job, idx, yt, tmp,
                   flags, result, gr_file_path>>

\* self.model.transcribe raises
TranscribeRaises(w) ==
    /\ pc[w] = "inferring"
    /\ call' = [call EXCEPT ![w] = NoCall]
    /\ Raise(w, [flags[w] EXCEPT !.infer_raised = TRUE])
    /\ UNCHANGED <<env, disk, files_info, cache, load_failed, started, job, idx, yt, tmp>>

\* generate_and_write_file (380-409) and what the entry point does with its
\* value: an unknown format leaves content unbound and line 409 raises;
\* write_file raises or replaces the file at the derived path;
\* transcribe_file stores the value under the file name and goes on with the
\* next file, the other entry points return the path
WriteFile(w) ==
    /\ pc[w] = "write"
    /\ LET file_name == FileName(job[w], idx[w])
           segments == Segments(Audio(job[w], idx[w]))
           add_timestamp == AddTimestamp(job[w])
           file_format == job[w].file_format
           timestamp == Strftime(now)
       IN  IF file_format \notin dd_file_format_choices
           THEN Raise(w, flags[w]) /\ UNCHANGED <<disk, files_info, idx>>
           ELSE \E ok \in BOOLEAN :
               IF ~ok
               THEN Raise(w, flags[w]) /\ UNCHANGED <<disk, files_info, idx>>
               ELSE LET content == Content(file_format, segments)
                        output_path == FullPath(file_name, add_timestamp, timestamp,
                                                file_format)
                    IN  /\ outputs' = write_file(outputs, content, output_path)
                        /\ last_write' =
                             [file_name |-> file_name, segments |-> segments,
                              add_timestamp |-> add_timestamp,
                              file_format |-> file_format, timestamp |-> now,
                              path |-> output_path, content |-> content,
                              returned |-> <<content, output_path>>,
                              again |-> /\ ~add_timestamp
                                        /\ ~last_write.add_timestamp
                                        /\ last_write.file_name = file_name
                                        /\ last_write.file_format = file_format
                                        /\ last_write.segments = segments]
                        /\ IF job[w].kind = "file"
                           THEN /\ files_info' = [files_info EXCEPT ![w] =
                                        DictPut(@, [file_name |-> file_name,
                                                    subtitle |-> content,
                                                    path |-> output_path])]
                                /\ idx' = [idx EXCEPT ![w] = idx[w] + 1]
                                /\ pc' = [pc EXCEPT ![w] = "loop"]
                                /\ UNCHANGED <<flags, result, gr_file_path>>
                           ELSE /\ Return(w, <<output_path>>)
                                /\ UNCHANGED <<files_info, idx>>
    /\ UNCHANGED <<env, cache, load_failed, started, job, yt, tmp, call>>

\* BaseInterface.remove_input_files: every listed file that exists is removed
RemoveInputFiles(existing, paths) == existing \ paths

\* the list the finally clause of transcribe_file (line 125) and of
\* transcribe_mic (line 294) hands to remove_input_files
InputPaths(args) == IF args.kind = "file" THEN 1..args.fileobjs.n ELSE {1}

\* the finally clause of transcribe_file (123-125) and transcribe_mic
\* (292-294): release_cuda_memory, then the path list, then
\* remove_input_files.  Nothing catches what these raise: the exception
\* leaves the entry point in place of the value of the try statement.
Finally(w) ==
    /\ pc[w] = "finally"
    /\ job[w].kind \in {"file", "mic"}
    /\ \E o \in {"ok", "release_raises", "remove_raises"} :
        LET listable == job[w].kind = "mic" \/ job[w].fileobjs.given
            raised == o # "ok" \/ ~listable
        IN  /\ flags' = [flags EXCEPT ![w] =
                    [@ EXCEPT !.released = (o # "release_raises"),
                              !.remove_called = (o # "release_raises" /\ listable),
                              !.cleanup_fault = (o = "release_raises"
                                                 \/ (o = "remove_raises" /\ listable)),
                              !.cleanup_raised = raised]]
            /\ tmp' = [tmp EXCEPT ![w] =
                    IF raised THEN @ ELSE RemoveInputFiles(@, InputPaths(job[w]))]
            /\ result' = [result EXCEPT ![w] = IF raised THEN "raised" ELSE @]
    /\ pc' = [pc EXCEPT ![w] = "done"]
    /\ UNCHANGED <<env, disk, files_info, cache, load_failed, started, job, idx, yt, call,
                   gr_file_path>>

\* the finally clause of transcribe_youtube (207-218): when yt is not bound
\* get_ytdata is called again, get_ytaudio downloads the audio again to learn
\* its path, then release_cuda_memory and remove_input_files run; the first
\* of these that raises ends the cleanup, and the exception is dropped.
FinallyYoutube(w) ==
    /\ pc[w] = "finally"
    /\ job[w].kind = "youtube"
    /\ \E o \in {"ok", "fetch_raises", "release_raises", "remove_raises"}
                \cup (IF yt[w] THEN {} ELSE {"ytdata_raises"}) :
        LET fetched == o \notin {"ytdata_raises", "fetch_raises"}
            released == fetched /\ o # "release_raises"
        IN  /\ yt' = [yt EXCEPT ![w] = @ \/ o # "ytdata_raises"]
            /\ flags' = [flags EXCEPT ![w] =
                    [@ EXCEPT !.released = released,
                              !.remove_called = released,
                              !.cleanup_fault = (o # "ok"),
                              !.cleanup_raised = (o # "ok")]]
            /\ tmp' = [tmp EXCEPT ![w] =
                    IF o = "ok" THEN RemoveInputFiles(@ \cup {1}, {1})
                    ELSE IF fetched THEN @ \cup {1} ELSE @]
    /\ pc' = [pc EXCEPT ![w] = "done"]
    /\ UNCHANGED <<env, disk, files_info, cache, load_failed, started, job, idx, call,
                   result, gr_file_path>>

\* the caller has taken the outcome; the worker is free again and the
\* invocation's locals are gone
Finish(w) ==
    /\ pc[w] = "done"
    /\ pc' = [pc EXCEPT ![w] = "idle"]
    /\ job' = [job EXCEPT ![w] = NoJob]
    /\ idx' = [idx EXCEPT ![w] = 0]
    /\ yt' = [yt EXCEPT ![w] = FALSE]
    /\ tmp' = [tmp EXCEPT ![w] = {}]
    /\ flags' = [flags EXCEPT ![w] = NoFlags]
    /\ result' = [result EXCEPT ![w] = "pending"]
    /\ files_info' = [files_info EXCEPT ![w] = <<>>]
    /\ gr_file_path' = [gr_file_path EXCEPT ![w] = <<>>]
    /\ UNCHANGED <<env, disk, cache, load_failed, started, call>>

\* dd_model.change (app.py:77, 119, 150): the user picks another model and
\* the handler's checkbox replaces the one of the tab
ChangeModel ==
    /\ \E model_size \in available_models :
        /\ model_size # dd_model
        /\ dd_model' = model_size
        /\ cb_translate' = on_change_models(model_size)
    /\ ticked' = FALSE
    /\ UNCHANGED <<queue_mode, now, cache, load_failed, started, pc, job, idx, yt,
                   tmp, call, flags, result, disk, files_info, gr_file_path>>

\* the user ticks or unticks the translate checkbox, which must be shown and
\* enabled
ToggleTranslate ==
    /\ cb_translate.visible /\ cb_translate.interactive
    /\ cb_translate' = [cb_translate EXCEPT !.value = ~@]
    /\ ticked' = ~cb_translate.value
    /\ UNCHANGED <<queue_mode, now, dd_model, cache, load_failed, started, pc, job,
                   idx, yt, tmp, call, flags, result, disk, files_info, gr_file_path>>

\* btn_run.click (app.py:71-75, 113-115, 146-148): the entry point of the
\* tab is called with the values its widgets hold
ClickRun(w) == Begin(w, ClickArgs(dd_model, cb_translate.value))

Next ==
    \E w \in Workers :
        \/ Start(w)
        \/ UpdateModelIfNeeded(w)
        \/ LoadModelReturns(w)
        \/ LoadModelRaises(w)
        \/ FileLoop(w)
        \/ YtData(w)
        \/ YtAudio(w)
        \/ Transcribe(w)
        \/ TranscribeReturns(w)
        \/ TranscribeRaises(w)
        \/ WriteFile(w)
        \/ Finally(w)
        \/ FinallyYoutube(w)
        \/ Finish(w)

Spec == Init /\ [][Next]_vars

\* the steps of an entry point once it has started
Steps(w) ==
    \/ UpdateModelIfNeeded(w)
    \/ LoadModelReturns(w)
    \/ LoadModelRaises(w)
    \/ FileLoop(w)
    \/ YtData(w)
    \/ YtAudio(w)
    \/ Transcribe(w)
    \/ TranscribeReturns(w)
    \/ TranscribeRaises(w)
    \/ WriteFile(w)
    \/ Finally(w)
    \/ FinallyYoutube(w)
    \/ Finish(w)

\* jobs run one at a time
InitSerial == Init /\ queue_mode = "serial"

\* the outputs directory over a sequence of jobs, while time passes
NextOutput ==
    \/ Tick
    \/ \E w \in Workers : StartOutput(w) \/ Steps(w)

SpecOutput == InitSerial /\ [][NextOutput]_vars

\* one tab of the page: its widgets and the jobs started from them
NextUI ==
    \/ ChangeModel
    \/ ToggleTranslate
    \/ \E w \in Workers : ClickRun(w) \/ Steps(w)

SpecUI == InitSerial /\ [][NextUI]_vars

\* ------------------------------------------------------------ claims

\* the positions of an entry point that follow a normal return of
\* update_model_if_needed and precede the end of the try body
InTryBody == {"loop", "ytdata", "ytaudio", "infer", "inferring", "write"}

\* C1: with jobs run one at a time and no update_model_if_needed call in
\* progress, a cached handle is the one loaded from current_model_size, and
\* a job whose update_model_if_needed returned normally finds the handle of
\* its own model_size cached.
C1_CacheConsistent ==
    (queue_mode = "serial" /\ \A w \in Workers : pc[w] # "loading") =>
        /\ model # None => current_model_size = model
        /\ \A w \in Workers : pc[w] \in InTryBody => model = job[w].model_size

\* C2: an entry point whose cleanup calls all work never ends by raising,
\* whatever its input; and when a step of the job failed it has logged and
\* returned None.
C2_NoExceptionEscapes ==
    \A w \in Workers :
        (pc[w] = "done" /\ ~flags[w].cleanup_fault) =>
            /\ result[w] # "raised"
            /\ flags[w].step_failed => (flags[w].logged /\ result[w] = "none")

\* C3: when an entry point has ended, release_cuda_memory has run and
\* remove_input_files has been called.
C3_CleanupUnconditional ==
    \A w \in Workers :
        pc[w] = "done" => (flags[w].released /\ flags[w].remove_called)

\* remove_input_files was called and raised
RemoveRaised(w) == flags[w].remove_called /\ flags[w].cleanup_fault

\* C4: when the inference call raised, none of the job's temporary input
\* files exists once the entry point has ended (unless the removal itself
\* was attempted and failed).
C4_InputGoneAfterInferenceFailure ==
    \A w \in Workers :
        (pc[w] = "done" /\ flags[w].infer_raised /\ ~RemoveRaised(w)) => tmp[w] = {}

\* C5: when a statement of the cleanup raised, the entry point still ends
\* with the value of its try statement: the list on success, None after a
\* logged failure.
C5_CleanupFailsSilently ==
    \A w \in Workers :
        (pc[w] = "done" /\ flags[w].cleanup_raised) =>
            result[w] = (IF flags[w].step_failed THEN "none" ELSE "value")

\* C6 as claimed: the task of every inference call is "translate" exactly
\* when the call asks for a translation and the job's own model_size is a
\* translatable model.
C6_TaskFromJobModel ==
    \A w \in Workers :
        pc[w] = "inferring" =>
            (call[w].task = "translate"
                <=> (call[w].istranslate /\ job[w].model_size \in translatable_model))

\* C6 as amended: with jobs run one at a time, the task of every inference
\* call is "translate" exactly when the call asks for a translation and the
\* job's own model_size is a translatable model; any other translate request
\* runs as "transcribe".
C6_TaskFromJobModelSerial ==
    queue_mode = "serial" => C6_TaskFromJobModel

\* C6 witness: a serial job on a model that cannot translate asked for a
\* translation and its inference call runs as "transcribe"
C6_Downgraded ==
    \E w \in Workers :
        /\ queue_mode = "serial"
        /\ pc[w] = "inferring"
        /\ call[w].istranslate
        /\ job[w].model_size \notin translatable_model
        /\ call[w].task = "transcribe"

\* C7: an inference call whose lang is a choice of the language dropdown gets
\* language None for the dropdown's automatic-detection entry and the chosen
\* language itself for any other entry.
C7_AutoDetectIsNone ==
    \A w \in Workers :
        (pc[w] = "inferring" /\ call[w].lang \in dd_lang_choices) =>
            call[w].language = (IF call[w].lang = dd_lang_default THEN None
                                ELSE call[w].lang)

\* C8: update_model_if_needed calls the loader exactly when no handle is
\* cached or the requested identifier differs from the recorded one; the
\* cached handle changes only by a load that returned, and then it is the
\* handle of the identifier requested by the loading job.
C8_LazyReload ==
    [][\A w \in Workers :
        /\ (pc[w] = "update" /\ pc'[w] # "update") =>
              /\ (pc'[w] = "loading")
                    <=> (model = None \/ job[w].model_size # current_model_size)
              /\ flags'[w].loaded <=> (pc'[w] = "loading")
              /\ model' = model
        /\ (pc[w] = "loading" /\ pc'[w] \in InTryBody) => model' = job[w].model_size
        /\ model' # model => \E o \in Workers : pc[o] = "loading" /\ pc'[o] \in InTryBody
      ]_vars

\* C8 witness: a job found the handle of its identifier cached by an earlier
\* job and went on without a load
C8_NoFurtherLoad ==
    \E w \in Workers :
        /\ pc[w] \in InTryBody
        /\ ~flags[w].loaded
        /\ started > 1
        /\ model = job[w].model_size
        /\ current_model_size = job[w].model_size

C10_SerialUsesOwnModel ==
    \A w \in Workers :
        (queue_mode = "serial" /\ ~load_failed /\ pc[w] = "inferring") =>
            /\ call[w].handle = job[w].model_size
            /\ call[w].task = Task(call[w].istranslate, job[w].model_size)

\* C10 witness: with interleaved jobs and no failed load, an inference call
\* of one job runs on the handle loaded for the other job's identifier, and
\* its task is the one that identifier gives, not the one its own gives
C10_RaceReached ==
    \E w \in Workers, o \in Workers :
        /\ queue_mode = "concurrent" /\ ~load_failed
        /\ o # w /\ pc[o] # "idle" /\ pc[w] = "inferring"
        /\ job[o].model_size # job[w].model_size
        /\ call[w].handle = job[o].model_size
        /\ call[w].task = Task(call[w].istranslate, job[o].model_size)
        /\ call[w].task # Task(call[w].istranslate, job[w].model_size)

\* a worker's generate_and_write_file call returns in this step
Wrote(w) == pc[w] = "write" /\ pc'[w] \in {"loop", "finally"} /\ ~flags'[w].step_failed

\* C11: over any sequence of jobs, a file of the outputs directory stays
\* there with the content it was created with: no later job and no later
\* file of the same batch replaces it.
C11_WriteOnce ==
    [][\A p \in DOMAIN outputs : p \in DOMAIN outputs' /\ outputs'[p] = outputs[p]]_vars

\* C12: the latest generate_and_write_file call wrote to
\* outputs/<name>-<timestamp><ext> when add_timestamp was true and to
\* outputs/<name><ext> when false, with .srt for SRT, .vtt for WebVTT and
\* .txt for txt; the file there holds the serialized segments, and the call
\* returned that content and that path.
C12_OutputPathDerivation ==
    last_write.file_name # None =>
        LET ext == CASE last_write.file_format = "SRT" -> ".srt"
                     [] last_write.file_format = "WebVTT" -> ".vtt"
                     [] last_write.file_format = "txt" -> ".txt"
                     [] OTHER -> ""
            serialized == CASE last_write.file_format = "SRT" -> get_srt(last_write.segments)
                            [] last_write.file_format = "WebVTT" -> get_vtt(last_write.segments)
                            [] last_write.file_format = "txt" -> get_txt(last_write.segments)
                            [] OTHER -> NoContent
            name == IF last_write.add_timestamp
                    THEN last_write.file_name \o "-" \o Strftime(last_write.timestamp)
                    ELSE last_write.file_name
            path == <<"outputs", name \o ext>>
        IN  /\ ext # ""
            /\ last_write.path = path
            /\ path \in DOMAIN outputs
            /\ outputs[path] = serialized
            /\ last_write.returned = <<serialized, path>>

\* a WebVTT file was written without a timestamp after the clock had moved on
C12_WroteVttUnstamped ==
    /\ last_write.file_format = "WebVTT"
    /\ ~last_write.add_timestamp
    /\ last_write.timestamp > 0
    /\ last_write.path \in DOMAIN outputs

\* C13: when generate_and_write_file is called with the segment list, the
\* base name and the format of the call before it and add_timestamp is false
\* in both, it targets the path of that call and the file there has the
\* content the first call left.
C13_SerializationIdempotent ==
    [][\A w \in Workers :
        (/\ Wrote(w)
         /\ last_write.file_name = FileName(job[w], idx[w])
         /\ last_write.segments = Segments(Audio(job[w], idx[w]))
         /\ last_write.file_format = job[w].file_format
         /\ ~last_write.add_timestamp
         /\ ~AddTimestamp(job[w]))
        => /\ last_write'.path = last_write.path
           /\ last_write.path \in DOMAIN outputs
           /\ outputs'[last_write.path] = outputs[last_write.path]
           /\ outputs' = outputs]_vars

\* the same unstamped write was made twice, the second time after the clock
\* had moved on
C13_WroteAgain == last_write.again /\ last_write.timestamp > 0

\* C14: while the inference call of a job is in flight, its beam size,
\* log-probability threshold and no-speech threshold are the ones the entry
\* point was given, and its fp16 flag is true exactly when the job's own
\* compute type is float16.
C14_DecodingPassThrough ==
    \A w \in Workers :
        pc[w] = "inferring" =>
            /\ call[w].beam_size = job[w].decoding.beam_size
            /\ call[w].logprob_threshold = job[w].decoding.log_prob_threshold
            /\ call[w].no_speech_threshold = job[w].decoding.no_speech_threshold
            /\ call[w].fp16 <=> (job[w].compute_type = "float16")

\* an inference call with decoding options other than the defaults, in
\* float32
C14_CustomDecoding ==
    \E w \in Workers :
        /\ pc[w] = "inferring"
        /\ job[w].decoding # nb_defaults
        /\ job[w].compute_type = "float32"
        /\ ~call[w].fp16

\* C15: with jobs run one at a time, a job that has come to its inference
\* call finds a handle cached, also after an earlier model load has failed.
C15_InferenceHasModel ==
    queue_mode = "serial" =>
        \A w \in Workers : pc[w] \in {"infer", "inferring"} => model # None

\* an inference call in flight after some model load has failed
C15_InferAfterFailedLoad ==
    /\ queue_mode = "serial"
    /\ load_failed
    /\ \E w \in Workers : pc[w] = "inferring" /\ call[w].handle = job[w].model_size

\* C16: a transcribe_file call that returned a value for N input files
\* returned N paths, no two of them equal.
C16_BatchComplete ==
    \A w \in Workers :
        (job[w].kind = "file" /\ result[w] = "value") =>
            /\ Len(gr_file_path[w]) = job[w].fileobjs.n
            /\ \A i, j \in 1..Len(gr_file_path[w]) :
                    i # j => gr_file_path[w][i] # gr_file_path[w][j]

\* C17: when a transcribe_file call on a file list has ended after the
\* inference call of its k-th file raised, or after a step raised once a
\* file had been written (and remove_input_files itself did not raise), it
\* returned no value and no paths, the files
\* written for the files before the k-th are in the outputs directory, no
\* result of the k-th or a later file was recorded, and no input file of the
\* batch is left.
C17_BatchAllOrNothing ==
    \A w \in Workers :
        (/\ pc[w] = "done"
         /\ job[w].kind = "file"
         /\ job[w].fileobjs.given
         /\ idx[w] <= job[w].fileobjs.n
         /\ flags[w].step_failed
         /\ flags[w].infer_raised \/ Len(files_info[w]) >= 1
         /\ ~RemoveRaised(w))
        => /\ result[w] # "value"
           /\ gr_file_path[w] = <<>>
           /\ \A i \in 1..Len(files_info[w]) : files_info[w][i].path \in DOMAIN outputs
           /\ Len(files_info[w]) < idx[w]
           /\ tmp[w] = {}

\* C18: a change of the model dropdown leaves the translate checkbox
\* unticked, and shown and enabled exactly when the new model is in the
\* translatable set of the inference call; a click starts the job with the
\* model of the dropdown and asks for translation only if the box was
\* ticked after the last model change; and only such a job has a translate
\* task in its inference call.
C18_TranslateGated ==
    [][/\ dd_model' # dd_model =>
            /\ ~cb_translate'.value
            /\ cb_translate'.visible <=> dd_model' \in translatable_model
            /\ cb_translate'.interactive <=> dd_model' \in translatable_model
       /\ \A w \in Workers :
            /\ (pc[w] = "idle" /\ pc'[w] = "update") =>
                    /\ job'[w].model_size = dd_model
                    /\ job'[w].istranslate => ticked
            /\ call'[w].task = "translate" => job'[w].istranslate]_vars

\* a translate task is in flight, and the model has since been changed to
\* one that hides the box
C18_TranslateThenHidden ==
    /\ dd_model = "base"
    /\ ~cb_translate.visible /\ ~cb_translate.interactive /\ ~cb_translate.value
    /\ \E w \in Workers : pc[w] = "inferring" /\ call[w].task = "translate"
====
